---- MODULE Spec2Model ----
(***************************************************************************)
(* Model of iterative_feature_selection_svr.py: optimize_model and its     *)
(* helpers train_model and feature_selection.                              *)
(*                                                                         *)
(* A dataset is a sequence of columns.  A column is a record               *)
(*   [name |-> header name, src |-> position of its values in the CSV]     *)
(* so that both the naming of a column and the values it holds are         *)
(* tracked.  The numerical libraries are abstracted: RFE returns some      *)
(* subset of the requested size (or raises), a fit returns some R2 score   *)
(* (or raises), a file-system write succeeds or raises.                    *)
(* The argument step only sets how many features RFE drops per internal    *)
(* round; the number of features it returns is n_features_to_select, so    *)
(* step is not a variable.  R2 scores are numbers (never NaN).             *)
(***************************************************************************)
EXTENDS Naturals, Sequences, FiniteSets

VARIABLES
    file_exists,       \* os.path.exists(file_path)
    csv_header,        \* the columns of the CSV at file_path
    remove_count,      \* argument remove_count
    min_features,      \* argument min_features
    dir_existed,       \* os.path.exists(save_dir) when the run started
    pc,                \* position in optimize_model
    data,              \* local data
    models_metrics,    \* local models_metrics
    iteration,         \* local iteration
    initial_features,  \* local initial_features
    current_features,  \* local current_features
    best_model,        \* local best_model (name, metrics, data)
    save_model,        \* local save_model: the normalised answer
    dir_exists,        \* save_dir exists now
    model_files,       \* .joblib files written into save_dir by this run
    csv_files,         \* .csv files written into save_dir by this run
    error,             \* how the run ended, "" while it has not failed
    rfe_calls,         \* history: one record per RFE(...).fit call
    fits               \* history: number of LinearRegression().fit calls

vars == <<file_exists, csv_header, remove_count, min_features, dir_existed,
          pc, data, models_metrics, iteration, initial_features,
          current_features, best_model, save_model, dir_exists, model_files,
          csv_files, error, rfe_calls, fits>>

inputs == <<file_exists, csv_header, remove_count, min_features, dir_existed>>

(* ------------------------------ bounds --------------------------------- *)
MaxFeatures == 3      \* feature columns of the input CSV: 1..MaxFeatures
MaxRemove == 2        \* remove_count: 1..MaxRemove
MaxPasses == 3        \* ranking passes explored in one run
MaxR2 == 1            \* R2 scores are drawn from 0..MaxR2

R2Values == 0 .. MaxR2

ColNames == <<"f1", "f2", "f3", "f4", "f5", "f6", "f7", "f8", "f9", "f10", "f11">>

\* The header of a CSV with n feature columns and a trailing target column
\* named tname; feature number clash (0: none) is named "target".
Header(n, tname, clash) ==
    [i \in 1 .. (n + 1) |->
        [name |-> IF i = n + 1 THEN tname
                  ELSE IF i = clash THEN "target" ELSE ColNames[i],
         src |-> i]]

\* read_csv yields distinct column names.
Headers ==
    { Header(n, "target", 0) : n \in 1 .. MaxFeatures }
    \cup { Header(n[1], "y", n[2]) :
             n \in { p \in (1 .. MaxFeatures) \X (0 .. MaxFeatures) : p[2] <= p[1] } }

(* ------------------------------ helpers -------------------------------- *)
\* data.iloc[:, :-1]
Features(d) == IF Len(d) = 0 THEN << >> ELSE SubSeq(d, 1, Len(d) - 1)

\* data.iloc[:, -1]
Target(d) == d[Len(d)]

\* X.loc[:, X.columns[support]]: the columns at the positions in keep, in order
RECURSIVE Take(_, _, _)
Take(X, keep, i) ==
    IF i > Len(X) THEN << >>
    ELSE (IF i \in keep THEN << X[i] >> ELSE << >>) \o Take(X, keep, i + 1)

\* final_data['target'] = y: pandas replaces the values of a column of that
\* name when there is one, and appends a new last column otherwise
SetTarget(X_selected, y) ==
    IF \E i \in 1 .. Len(X_selected) : X_selected[i].name = "target"
    THEN [i \in 1 .. Len(X_selected) |->
            IF X_selected[i].name = "target"
            THEN [name |-> "target", src |-> y.src]
            ELSE X_selected[i]]
    ELSE Append(X_selected, [name |-> "target", src |-> y.src])

\* n_features = X.shape[1] - remove_count, at least 1
NFeatures(X, rc) == IF Len(X) > rc THEN Len(X) - rc ELSE 1

\* the labels of the recorded models
InitialLabel == [kind |-> "initial_model", n |-> 0]
IterationLabel(n) == [kind |-> "model_iteration", n |-> n]
NoLabel == [kind |-> "none", n |-> 0]

NoModel == [name |-> NoLabel, r2 |-> 0, data |-> << >>]

\* a scan that also replaces the running maximum by an equal key
RECURSIVE MaxScanLast(_, _, _)
MaxScanLast(s, i, best) ==
    IF i > Len(s) THEN best
    ELSE MaxScanLast(s, i + 1, IF s[i].r2 >= best.r2 THEN s[i] ELSE best)

PyMaxLast(s) == MaxScanLast(s, 2, s[1])

\* max(models_metrics, key=R2): a left-to-right scan that replaces the
\* running maximum only by a strictly greater key
RECURSIVE MaxScan(_, _, _)
MaxScan(s, i, best) ==
    IF i > Len(s) THEN best
    ELSE MaxScan(s, i + 1, IF s[i].r2 > best.r2 THEN s[i] ELSE best)

PyMax(s) == MaxScan(s, 2, s[1])

\* input(...).strip().lower() on the answers the model types
Answers == {" Y ", "Yes", "no"}

StripLower(s) ==
    CASE s = " Y " -> "y"
      [] s = "Yes" -> "yes"
      [] OTHER -> s

\* a test that accepts the full word only
AffirmativeYesOnly(s) == s = "yes"

\* save_model in ('yes', 'y')
Affirmative(s) == s \in {"yes", "y"}

\* os.path.join(save_dir, f"best_model_{name}.joblib") and the .csv name
BestModelFile(label) == [prefix |-> "best_model_", label |-> label, ext |-> ".joblib"]
BestFeaturesFile(label) == [prefix |-> "best_features_", label |-> label, ext |-> ".csv"]

\* the stop test with a strict comparison
StopTestStrict == current_features < min_features

\* line 92: if current_features <= min_features
StopTest == current_features <= min_features

(* -------------------------------- Init --------------------------------- *)
Init ==
    /\ file_exists \in BOOLEAN
    /\ csv_header \in Headers
    /\ remove_count \in 1 .. MaxRemove
    /\ min_features \in 0 .. (MaxFeatures + 1)
    /\ dir_existed \in BOOLEAN
    /\ pc = "start"
    /\ data = << >>
    /\ models_metrics = << >>
    /\ iteration = 0
    /\ initial_features = 0
    /\ current_features = 0
    /\ best_model = NoModel
    /\ save_model = ""
    /\ dir_exists = dir_existed
    /\ model_files = {}
    /\ csv_files = {}
    /\ error = ""
    /\ rfe_calls = << >>
    /\ fits = 0

(* ----------------------------- train_model ----------------------------- *)
\* LinearRegression().fit needs at least one feature column beside the target
FitPossible(d) == Len(d) >= 2

\* one entry of models_metrics: (name, metrics, data)
Entry(label, r2, d) == [name |-> label, r2 |-> r2, data |-> d]

(* --------------------- leaving optimize_model early --------------------- *)
\* an exception (or the early return) unwinds the frame: the locals are gone,
\* the file system stays as it is
Leave(kind, where) ==
    /\ pc' = where
    /\ error' = kind
    /\ data' = << >>
    /\ models_metrics' = << >>
    /\ iteration' = 0
    /\ initial_features' = 0
    /\ current_features' = 0
    /\ best_model' = NoModel
    /\ save_model' = ""

(* ------------------------------ the actions ----------------------------- *)
\* lines 73-75: the path does not exist
NotFound ==
    /\ pc = "start"
    /\ ~file_exists
    /\ Leave("NotFound", "returned")
    /\ UNCHANGED <<inputs, dir_exists, model_files, csv_files, rfe_calls, fits>>

\* lines 77-87: read the CSV, fit the baseline, record it
LoadAndTrainInitial ==
    /\ pc = "start"
    /\ file_exists
    /\ FitPossible(csv_header)
    /\ \E r2 \in R2Values :
         models_metrics' = << Entry(InitialLabel, r2, csv_header) >>
    /\ data' = csv_header
    /\ initial_features' = Len(csv_header) - 1
    /\ current_features' = Len(csv_header) - 1
    /\ iteration' = 1
    /\ fits' = fits + 1
    /\ pc' = "loop"
    /\ UNCHANGED <<inputs, best_model, save_model, dir_exists, model_files,
                   csv_files, error, rfe_calls>>

\* line 83 raises
InitialFitFails ==
    /\ pc = "start"
    /\ file_exists
    /\ fits' = fits + 1
    /\ Leave("FitError", "aborted")
    /\ UNCHANGED <<inputs, dir_exists, model_files, csv_files, rfe_calls>>

\* lines 92-94 and 106-107: the stop test holds, pick the best recorded model
LoopStop ==
    /\ pc = "loop"
    /\ StopTest
    /\ best_model' = PyMax(models_metrics)
    /\ pc' = "makedirs"
    /\ UNCHANGED <<inputs, data, models_metrics, iteration, initial_features,
                   current_features, save_model, dir_exists, model_files,
                   csv_files, error, rfe_calls, fits>>

\* the record of one RFE(...).fit call
RfeCall(X, n, got) ==
    [current |-> current_features, columns |-> Len(X), n_features |-> n,
     selected |-> got]

\* lines 96-104: one ranking pass, the refit and the record of it
RankingPass ==
    /\ pc = "loop"
    /\ ~StopTest
    /\ iteration <= MaxPasses
    /\ LET X == Features(data)
           y == Target(data)
           n == NFeatures(X, remove_count)
       IN  \E keep \in SUBSET (1 .. Len(X)) :
             /\ Cardinality(keep) = n
             /\ LET final_data == SetTarget(Take(X, keep, 1), y)
                IN  /\ FitPossible(final_data)
                    /\ data' = final_data
                    /\ current_features' = Cardinality(keep)
                    /\ \E r2 \in R2Values :
                         models_metrics' =
                           Append(models_metrics,
                                  Entry(IterationLabel(iteration), r2, final_data))
                    /\ rfe_calls' = Append(rfe_calls, RfeCall(X, n, Cardinality(keep)))
    /\ iteration' = iteration + 1
    /\ fits' = fits + 1
    /\ UNCHANGED <<inputs, pc, initial_features, best_model, save_model,
                   dir_exists, model_files, csv_files, error>>

\* a ranking failure that is swallowed: the loop ends and the best model
\* recorded so far is saved
RankingFailsSavesBest ==
    /\ pc = "loop"
    /\ ~StopTest
    /\ iteration <= MaxPasses
    /\ rfe_calls' = Append(rfe_calls,
                           RfeCall(Features(data),
                                   NFeatures(Features(data), remove_count), 0))
    /\ error' = "RankingError"
    /\ best_model' = PyMax(models_metrics)
    /\ pc' = "makedirs"
    /\ UNCHANGED <<inputs, data, models_metrics, iteration, initial_features,
                   current_features, save_model, dir_exists, model_files,
                   csv_files, fits>>

\* line 62 raises: the exception leaves optimize_model
RankingFails ==
    /\ pc = "loop"
    /\ ~StopTest
    /\ iteration <= MaxPasses
    /\ rfe_calls' = Append(rfe_calls,
                           RfeCall(Features(data),
                                   NFeatures(Features(data), remove_count), 0))
    /\ Leave("RankingError", "aborted")
    /\ UNCHANGED <<inputs, dir_exists, model_files, csv_files, fits>>

\* line 101 raises after a ranking pass that succeeded
IterationFitFails ==
    /\ pc = "loop"
    /\ ~StopTest
    /\ iteration <= MaxPasses
    /\ LET X == Features(data)
           n == NFeatures(X, remove_count)
       IN  rfe_calls' = Append(rfe_calls, RfeCall(X, n, n))
    /\ fits' = fits + 1
    /\ Leave("FitError", "aborted")
    /\ UNCHANGED <<inputs, dir_exists, model_files, csv_files>>

\* lines 113-119: create save_dir when it is absent, refit the final model
MakeDirs ==
    /\ pc = "makedirs"
    /\ dir_exists' = TRUE
    /\ fits' = fits + 1
    /\ pc' = "prompt"
    /\ UNCHANGED <<inputs, data, models_metrics, iteration, initial_features,
                   current_features, best_model, save_model, model_files,
                   csv_files, error, rfe_calls>>

\* line 114 raises
MakeDirsFails ==
    /\ pc = "makedirs"
    /\ ~dir_exists
    /\ Leave("MakeDirsError", "aborted")
    /\ UNCHANGED <<inputs, dir_exists, model_files, csv_files, rfe_calls, fits>>

\* the file dump(final_model, best_model_file) writes
ModelArtifact == [name |-> BestModelFile(best_model.name), fitted_on |-> best_model.data]

\* the file best_data.to_csv(best_features_file, index=False) writes
FeaturesCsv == [name |-> BestFeaturesFile(best_model.name), columns |-> best_model.data]

\* the two writes in the other order: the CSV first, then the dump
PromptAndDumpCsvFirst ==
    /\ pc = "prompt"
    /\ csv_files' = csv_files \cup {FeaturesCsv}
    /\ \E answer \in Answers :
         /\ save_model' = StripLower(answer)
         /\ model_files' = IF Affirmative(StripLower(answer))
                           THEN model_files \cup {ModelArtifact}
                           ELSE model_files
    /\ pc' = "to_csv"
    /\ UNCHANGED <<inputs, data, models_metrics, iteration, initial_features,
                   current_features, best_model, dir_exists, error,
                   rfe_calls, fits>>

\* lines 121-124: ask, and dump the model when the answer is yes or y
PromptAndDump ==
    /\ pc = "prompt"
    /\ \E answer \in Answers :
         /\ save_model' = StripLower(answer)
         /\ model_files' = IF Affirmative(StripLower(answer))
                           THEN model_files \cup {ModelArtifact}
                           ELSE model_files
    /\ pc' = "to_csv"
    /\ UNCHANGED <<inputs, data, models_metrics, iteration, initial_features,
                   current_features, best_model, dir_exists, csv_files, error,
                   rfe_calls, fits>>

\* line 123 raises
DumpFails ==
    /\ pc = "prompt"
    /\ \E answer \in Answers : Affirmative(StripLower(answer))
    /\ Leave("DumpError", "aborted")
    /\ UNCHANGED <<inputs, dir_exists, model_files, csv_files, rfe_calls, fits>>

\* lines 126-127: write the best dataset
WriteCsv ==
    /\ pc = "to_csv"
    /\ csv_files' = csv_files \cup {FeaturesCsv}
    /\ pc' = "done"
    /\ UNCHANGED <<inputs, data, models_metrics, iteration, initial_features,
                   current_features, best_model, save_model, dir_exists,
                   model_files, error, rfe_calls, fits>>

\* line 126 raises
WriteCsvFails ==
    /\ pc = "to_csv"
    /\ Leave("CsvError", "aborted")
    /\ UNCHANGED <<inputs, dir_exists, model_files, csv_files, rfe_calls, fits>>

Next ==
    \/ NotFound
    \/ LoadAndTrainInitial
    \/ InitialFitFails
    \/ LoopStop
    \/ RankingPass
    \/ RankingFails
    \/ IterationFitFails
    \/ MakeDirs
    \/ MakeDirsFails
    \/ PromptAndDump
    \/ DumpFails
    \/ WriteCsv
    \/ WriteCsvFails

Spec == Init /\ [][Next]_vars

(* ------------------------ definitions for the claims -------------------- *)
\* the feature columns of the input CSV
InputFeatureCount == Len(csv_header) - 1

Max(a, b) == IF a >= b THEN a ELSE b

\* ceil((initialFeatureCount - minFeatures) / removeCountPerIteration), 0 below
PassBound ==
    IF InputFeatureCount <= min_features THEN 0
    ELSE (InputFeatureCount - min_features + remove_count - 1) \div remove_count

\* the loop has ended and the best model is chosen
AfterLoop == pc \in {"makedirs", "prompt", "to_csv", "done"}

\* the columns of a dataset, as a set
Columns(s) == { s[i] : i \in 1 .. Len(s) }

\* C1: for every feature count >= 1, positive remove_count and min_features
\* >= 0, the loop ends after at most
\* ceil((initialFeatureCount - minFeatures) / removeCountPerIteration)
\* ranking passes.
C1_PassesWithinBound == Len(rfe_calls) <= PassBound

\* C2: with one feature column and min_features = 0 no ranking pass runs and
\* the run completes with initial_model as the winner.
C2_SingleFeatureNoPass ==
    (InputFeatureCount = 1 /\ min_features = 0) =>
        /\ rfe_calls = << >>
        /\ pc = "done" => best_model.name = InitialLabel

\* C3: when min_features >= the initial feature count no ranking pass runs,
\* exactly one result (initial_model) is recorded, it is the winner and its
\* dataset is the one written.
C3_NoPassWhenMinCoversAll ==
    (min_features >= InputFeatureCount) =>
        /\ rfe_calls = << >>
        /\ Len(models_metrics) <= 1
        /\ AfterLoop =>
             /\ Len(models_metrics) = 1
             /\ models_metrics[1].name = InitialLabel
             /\ best_model = models_metrics[1]
        /\ pc = "done" =>
             csv_files = {[name |-> BestFeaturesFile(InitialLabel),
                           columns |-> csv_header]}

C3_Witness ==
    /\ pc = "done"
    /\ min_features = InputFeatureCount
    /\ InputFeatureCount >= 2

C5_FilesOfACompletedRun ==
    /\ (model_files # {} \/ csv_files # {}) => dir_exists
    /\ pc \in {"prompt", "to_csv", "done"} => dir_exists
    /\ pc = "done" =>
         /\ \E f \in csv_files : f.name = BestFeaturesFile(best_model.name)
         /\ (save_model \in {"yes", "y"}) <=>
              (\E f \in model_files : f.name = BestModelFile(best_model.name))
         /\ (save_model \notin {"yes", "y"}) => model_files = {}

C5_Witness ==
    /\ pc = "done"
    /\ ~dir_existed
    /\ dir_exists
    /\ save_model = "no"
    /\ csv_files # {}
    /\ model_files = {}

\* C6: the CSV a completed run writes has the winner's feature columns in
\* their original order followed by one column named target that holds the
\* original target values, whichever iteration wins.
C6_CsvEndsWithTargetColumn ==
    pc = "done" =>
        \A f \in csv_files :
            /\ f.columns = Features(best_model.data)
                             \o << [name |-> "target", src |-> InputFeatureCount + 1] >>
            /\ \A i, j \in 1 .. (Len(f.columns) - 1) :
                 i < j => f.columns[i].src < f.columns[j].src

\* C7: a run that ends because the path does not exist or because a ranking
\* pass raised has not created save_dir nor written a file; when the path
\* does not exist nothing was fitted or ranked either.
C7_AbortLeavesNoFiles ==
    /\ error \in {"NotFound", "RankingError"} =>
         /\ dir_exists = dir_existed
         /\ model_files = {}
         /\ csv_files = {}
    /\ error = "NotFound" => (fits = 0 /\ rfe_calls = << >>)

C7_Witness ==
    /\ error = "RankingError"
    /\ pc = "aborted"
    /\ Len(rfe_calls) >= 2
    /\ ~dir_existed

\* C8 as written: the CSV is written before the model artifact, so the CSV
\* exists whenever the model artifact does and when the dump raised.
C8_CsvBeforeModel ==
    /\ model_files # {} => csv_files # {}
    /\ error = "DumpError" => csv_files # {}

\* C8 amended: the model artifact is dumped before the CSV is written; when
\* the dump raises no CSV has been written.
C8_ModelBeforeCsv ==
    /\ (csv_files # {} /\ save_model \in {"yes", "y"}) => model_files # {}
    /\ pc = "to_csv" => csv_files = {}
    /\ error = "DumpError" => (csv_files = {} /\ model_files = {})

C8_Witness ==
    /\ pc = "to_csv"
    /\ save_model = "y"
    /\ model_files # {}
    /\ csv_files = {}

\* C9: every ranking pass asks for max(1, currentFeatureCount - remove_count)
\* features, never fewer than 1, and the working dataset has that many
\* feature columns after the pass; 10 features with remove_count 2 and
\* min_features 4 give the feature counts 10, 8, 6, 4 and three passes.
C9_RequestedFeatureCount ==
    /\ \A i \in 1 .. Len(rfe_calls) :
         /\ rfe_calls[i].n_features = Max(1, rfe_calls[i].current - remove_count)
         /\ rfe_calls[i].n_features >= 1
         /\ rfe_calls[i].selected \in {0, rfe_calls[i].n_features}
    /\ (pc = "loop" /\ rfe_calls # << >>) =>
         /\ current_features = rfe_calls[Len(rfe_calls)].n_features
         /\ Len(Features(data)) = rfe_calls[Len(rfe_calls)].n_features
    /\ (AfterLoop /\ InputFeatureCount = 10 /\ remove_count = 2 /\ min_features = 4) =>
         /\ Len(rfe_calls) = 3
         /\ [i \in 1 .. Len(models_metrics) |-> Len(Features(models_metrics[i].data))]
              = << 10, 8, 6, 4 >>

\* C10: the feature columns recorded for an iteration are among those of
\* the iteration before it, and every recorded dataset has at least one
\* feature column and, last, the target column.
C10_CumulativeShrinkage ==
    \A i \in 1 .. Len(models_metrics) :
        /\ Len(Features(models_metrics[i].data)) >= 1
        /\ Target(models_metrics[i].data).src = InputFeatureCount + 1
        /\ i > 1 => Columns(Features(models_metrics[i].data))
                      \subseteq Columns(Features(models_metrics[i - 1].data))

====
